---- MODULE Spec2Model ----
(***************************************************************************)
(* Model of barcode_overlay_gui.py: the file-name sanitizer, the placement *)
(* geometry, the top-text drawing loop and the compose pipeline with its   *)
(* output file.                                                            *)
(***************************************************************************)
EXTENDS Integers, Sequences, FiniteSets, TLC

VARIABLES
    \* sanitize_filename: the argument, the result, the result of a second call
    name, result, again, sanPc,
    \* compose_final_pdf's geometry: the source page's size and what is computed
    bc_w, bc_h, geo, geoPc,
    \* draw_base_a4_with_text_and_label's text loop
    wrapped_lines, idx, y_text, drawn, labels, drawPc,
    \* App.create_pdf and compose_final_pdf, per invocation: the form's fields,
    \* the position, the message shown, the steps run, the output path, the
    \* number of chunks the writer emits, the file position, the returned path
    req, pc, msg, log, out_path, nchunks, pos, ret,
    \* the output directories' files, and who created or wrote which path
    fs, touched, lastWriter

sanVars == <<name, result, again, sanPc>>
geoVars == <<bc_w, bc_h, geo, geoPc>>
drawVars == <<wrapped_lines, idx, y_text, drawn, labels, drawPc>>
compVars == <<req, pc, msg, log, out_path, nchunks, pos, ret, fs, touched, lastWriter>>
vars == <<sanVars, geoVars, drawVars, compVars>>

(***************************************************************************)
(* Each specification runs one part of the program; a part that is not     *)
(* running keeps the values below.                                         *)
(***************************************************************************)
NoString == <<"?none?">>

FZero == <<0, 0>>

NoGeo == [scale |-> FZero, barcode_w_pt |-> FZero, barcode_h_pt |-> FZero,
          x |-> FZero, y |-> FZero, label_x_center |-> FZero, label_y |-> FZero]

SanIdle ==
    /\ name = NoString
    /\ result = NoString
    /\ again = NoString
    /\ sanPc = "off"

GeoIdle ==
    /\ bc_w = FZero
    /\ bc_h = FZero
    /\ geo = NoGeo
    /\ geoPc = "off"

DrawIdle ==
    /\ wrapped_lines = <<>>
    /\ idx = 0
    /\ y_text = FZero
    /\ drawn = <<>>
    /\ labels = <<>>
    /\ drawPc = "off"

CompIdle ==
    /\ req = <<>>
    /\ pc = <<>>
    /\ msg = <<>>
    /\ log = <<>>
    /\ out_path = <<>>
    /\ nchunks = <<>>
    /\ pos = <<>>
    /\ ret = <<>>
    /\ fs = <<>>
    /\ touched = <<>>
    /\ lastWriter = 0

Min(a, b) == IF a <= b THEN a ELSE b
Max(a, b) == IF a >= b THEN a ELSE b

(***************************************************************************)
(* Python floats.  A float is <<m, e>>, the number m * 2^e, with m = 0 or   *)
(* 2^(P-1) <= |m| < 2^P: binary floating point with a P-bit significand and *)
(* round-to-nearest-even, as IEEE 754 binary64 is with P = 53.  Every       *)
(* operation returns the float nearest to the exact result.                 *)
(***************************************************************************)
MantBits == 11

Abs(n) == IF n < 0 THEN -n ELSE n
Sgn(n) == IF n < 0 THEN -1 ELSE IF n > 0 THEN 1 ELSE 0

RECURSIVE Pow2(_)
Pow2(k) == IF k <= 0 THEN 1 ELSE 2 * Pow2(k - 1)

RECURSIVE BitLen(_)
BitLen(n) == IF n = 0 THEN 0 ELSE 1 + BitLen(n \div 2)

\* The float nearest to n * 2^e (ties to the even significand).
Round(n, e) ==
    IF n = 0 THEN FZero
    ELSE LET a == Abs(n)
             L == BitLen(a)
         IN  IF L <= MantBits
             THEN <<n * Pow2(MantBits - L), e - (MantBits - L)>>
             ELSE LET k == L - MantBits
                      q == a \div Pow2(k)
                      r == a % Pow2(k)
                      half == Pow2(k - 1)
                      up == r > half \/ (r = half /\ q % 2 = 1)
                      q2 == IF up THEN q + 1 ELSE q
                  IN  IF q2 = Pow2(MantBits)
                      THEN <<Sgn(n) * Pow2(MantBits - 1), e + k + 1>>
                      ELSE <<Sgn(n) * q2, e + k>>

FromInt(n) == Round(n, 0)

\* a * b
FMul(a, b) == Round(a[1] * b[1], a[2] + b[2])

\* The exact sum as n * 2^e when the exponents are near; when they are far
\* apart the smaller operand only decides the rounding direction.
SumParts(a, b) ==
    IF a[1] = 0 THEN b
    ELSE IF b[1] = 0 THEN a
    ELSE LET hi == IF a[2] >= b[2] THEN a ELSE b
             lo == IF a[2] >= b[2] THEN b ELSE a
             d == hi[2] - lo[2]
         IN  IF d <= MantBits + 2
             THEN <<hi[1] * Pow2(d) + lo[1], lo[2]>>
             ELSE <<hi[1] * 8 + Sgn(lo[1]), hi[2] - 3>>

FNeg(a) == <<-a[1], a[2]>>

\* a + b, a - b
FAdd(a, b) == LET s == SumParts(a, b) IN Round(s[1], s[2])
FSub(a, b) == FAdd(a, FNeg(b))

\* a / b for b # 0: the quotient to MantBits + 2 bits and a sticky bit.
FDiv(a, b) ==
    IF a[1] = 0 THEN FZero
    ELSE LET n == Abs(a[1]) * Pow2(MantBits + 2)
             q == n \div Abs(b[1])
             sticky == IF n % Abs(b[1]) = 0 THEN 0 ELSE 1
         IN  Round(Sgn(a[1]) * Sgn(b[1]) * (2 * q + sticky),
                   a[2] - b[2] - (MantBits + 2) - 1)

\* a < b, a >= b (exact)
FLt(a, b) == SumParts(a, FNeg(b))[1] < 0
FGe(a, b) == ~FLt(a, b)

\* The float a decimal literal n/d denotes (n, d > 0).
RECURSIVE Scaled(_, _)
Scaled(n, d) ==
    IF n >= d * Pow2(MantBits + 1) THEN <<n, 0>>
    ELSE LET s == Scaled(2 * n, d) IN <<s[1], s[2] + 1>>

Literal(n, d) ==
    LET s == Scaled(n, d)
        q == s[1] \div d
        sticky == IF s[1] % d = 0 THEN 0 ELSE 1
    IN  Round(2 * q + sticky, -s[2] - 1)

(***************************************************************************)
(* sanitize_filename.  Strings are sequences of one-character strings.     *)
(***************************************************************************)

\* The character class of the first re.sub: [\\/:"*?<>|]
Forbidden == {"\\", "/", ":", "\"", "*", "?", "<", ">", "|"}

\* The characters str.strip() removes and \s matches (those the inputs use).
Whitespace == {" ", "\t", "\n"}

\* name[:120]
MAX_NAME_LEN == 120

\* The fallback literal "output".
FALLBACK == <<"o", "u", "t", "p", "u", "t">>

RECURSIVE LStrip(_)
LStrip(s) ==
    IF s # <<>> /\ Head(s) \in Whitespace THEN LStrip(Tail(s)) ELSE s

RECURSIVE RStrip(_)
RStrip(s) ==
    IF s # <<>> /\ s[Len(s)] \in Whitespace
    THEN RStrip(SubSeq(s, 1, Len(s) - 1))
    ELSE s

\* str.strip()
Strip(s) == RStrip(LStrip(s))

\* re.sub(cls+, rep, s) over s[lo..hi]: every maximal run of characters of cls
\* becomes rep (the first character of a run yields rep, the others nothing).
\* The range is halved so that the evaluation depth stays logarithmic.
RECURSIVE SubRange(_, _, _, _, _)
SubRange(s, cls, rep, lo, hi) ==
    IF lo > hi THEN <<>>
    ELSE IF lo = hi
         THEN IF s[lo] \in cls
              THEN IF lo > 1 /\ s[lo - 1] \in cls THEN <<>> ELSE <<rep>>
              ELSE <<s[lo]>>
         ELSE LET mid == (lo + hi) \div 2
              IN  SubRange(s, cls, rep, lo, mid) \o SubRange(s, cls, rep, mid + 1, hi)

SubRuns(s, cls, rep) == SubRange(s, cls, rep, 1, Len(s))

\* s[:n]
Truncate(s, n) == SubSeq(s, 1, Min(Len(s), n))

sanitize_filename(s) ==
    LET a == Strip(s)
        b == SubRuns(a, Forbidden, "-")
        c == Strip(SubRuns(b, Whitespace, " "))
    IN  IF c # <<>> THEN Truncate(c, MAX_NAME_LEN) ELSE FALLBACK

(***************************************************************************)
(* Inputs of the sanitizer: a short head, a run of ordinary characters     *)
(* whose length is around the 120-character cut, and a short tail.         *)
(***************************************************************************)
MaxHead == 1
MaxTail == 3
Alphabet == {"a", "-", " ", "\t", "/", ":"}
PadLens == {0, MAX_NAME_LEN - 2, MAX_NAME_LEN - 1, MAX_NAME_LEN}

StringsUpTo(n) == UNION {[1..k -> Alphabet] : k \in 0..n}
Pad(k) == [i \in 1..k |-> "a"]
SanInputs ==
    {h \o Pad(k) \o t : h \in StringsUpTo(MaxHead), k \in PadLens,
                        t \in StringsUpTo(MaxTail)}

(***************************************************************************)
(* Module constants (lines 12-17).  A4 is reportlab's (210 mm, 297 mm) in   *)
(* points.                                                                 *)
(***************************************************************************)
PAGE_W == Literal(5952756, 10000)
PAGE_H == Literal(8418898, 10000)
MARGIN == 36
BARCODE_TARGET_W == Literal(3600, 10)
GAP_BARCODE_LABEL == Literal(140, 10)
TOP_TEXT_FONT_SIZE == 10
FTwo == Literal(20, 10)

(***************************************************************************)
(* The placement geometry: compose_final_pdf lines 81-84 and               *)
(* draw_base_a4_with_text_and_label lines 33-39.                           *)
(***************************************************************************)
\* scale = BARCODE_TARGET_W / bc_w
Scale(w) == FDiv(BARCODE_TARGET_W, w)

\* x = (PAGE_W - barcode_w_pt) / 2.0
OriginX(bw) == FDiv(FSub(PAGE_W, bw), FTwo)

\* A faulty variant: the origin is not halved.
OriginY_unhalved(bh) == FSub(PAGE_H, bh)

\* y = (PAGE_H - barcode_h_pt) / 2.0
OriginY(bh) == FDiv(FSub(PAGE_H, bh), FTwo)

\* label_x_center = PAGE_W / 2.0
LabelXCenter == FDiv(PAGE_W, FTwo)

\* label_y = y - GAP_BARCODE_LABEL
LabelY(y) == FSub(y, GAP_BARCODE_LABEL)

\* The source page's width and height: float(bc_page.mediabox.width / .height)
MaxDim == 80
Dims == {FromInt(i) : i \in 1..MaxDim}

\* Lines 82-84: the scale and the placed size.
ComputeScale ==
    /\ geoPc = "read"
    /\ geo' = [geo EXCEPT !.scale = Scale(bc_w),
                          !.barcode_w_pt = FMul(bc_w, Scale(bc_w)),
                          !.barcode_h_pt = FMul(bc_h, Scale(bc_w))]
    /\ geoPc' = "scaled"
    /\ UNCHANGED <<bc_w, bc_h, sanVars, drawVars, compVars>>

\* Lines 34-39: the origin of the graphic and the label anchor.
PlaceOnPage ==
    /\ geoPc = "scaled"
    /\ geo' = [geo EXCEPT !.x = OriginX(geo.barcode_w_pt),
                          !.y = OriginY(geo.barcode_h_pt),
                          !.label_x_center = LabelXCenter,
                          !.label_y = LabelY(OriginY(geo.barcode_h_pt))]
    /\ geoPc' = "placed"
    /\ UNCHANGED <<bc_w, bc_h, sanVars, drawVars, compVars>>

(***************************************************************************)
(* The text loop of draw_base_a4_with_text_and_label (lines 45-64).  A     *)
(* wrapped line is named by its place in wrapped_lines.                    *)
(***************************************************************************)
MaxLines == 62

\* line_height = font_size * 1.3
line_height == FMul(FromInt(TOP_TEXT_FONT_SIZE), Literal(13, 10))

\* y_text = PAGE_H - MARGIN
TextTop == FSub(PAGE_H, FromInt(MARGIN))

\* A faulty variant: the test looks at the cursor, not at the baseline the line would get.
NoRoom_cursor(y) == FLt(y, FromInt(MARGIN))

\* Line 57: y_text - line_height < MARGIN
NoRoom(y) == FLt(FSub(y, line_height), FromInt(MARGIN))

\* A faulty variant: the line is drawn at the cursor.
Baseline_cursor(y) == y

\* Line 59: the baseline the line is drawn at
Baseline(y) == FSub(y, line_height)

\* Lines 56-60, one iteration in which the line fits.
DrawLine ==
    /\ drawPc = "loop"
    /\ idx <= Len(wrapped_lines)
    /\ ~NoRoom(y_text)
    /\ drawn' = Append(drawn, [line |-> wrapped_lines[idx], y |-> Baseline(y_text)])
    /\ y_text' = FSub(y_text, line_height)
    /\ idx' = idx + 1
    /\ UNCHANGED <<wrapped_lines, labels, drawPc, sanVars, geoVars, compVars>>

\* A faulty variant: return where the code breaks, so the label is lost.
BreakLoop_return ==
    /\ drawPc = "loop"
    /\ idx <= Len(wrapped_lines)
    /\ NoRoom(y_text)
    /\ drawPc' = "done"
    /\ UNCHANGED <<wrapped_lines, idx, y_text, drawn, labels, sanVars, geoVars, compVars>>

\* Lines 57-58: the line does not fit, break.
BreakLoop ==
    /\ drawPc = "loop"
    /\ idx <= Len(wrapped_lines)
    /\ NoRoom(y_text)
    /\ drawPc' = "label"
    /\ UNCHANGED <<wrapped_lines, idx, y_text, drawn, labels, sanVars, geoVars, compVars>>

\* Line 56: the list is exhausted.
EndLoop ==
    /\ drawPc = "loop"
    /\ idx > Len(wrapped_lines)
    /\ drawPc' = "label"
    /\ UNCHANGED <<wrapped_lines, idx, y_text, drawn, labels, sanVars, geoVars, compVars>>

\* Lines 63-64: the label.
DrawLabel ==
    /\ drawPc = "label"
    /\ labels' = Append(labels, "label_text")
    /\ drawPc' = "done"
    /\ UNCHANGED <<wrapped_lines, idx, y_text, drawn, sanVars, geoVars, compVars>>

SanInit ==
    /\ name \in SanInputs
    /\ result = NoString
    /\ again = NoString
    /\ sanPc = "start"
    /\ GeoIdle
    /\ DrawIdle
    /\ CompIdle

\* result = sanitize_filename(name)
SanitizeCall ==
    /\ sanPc = "start"
    /\ result' = sanitize_filename(name)
    /\ sanPc' = "once"
    /\ UNCHANGED <<name, again, geoVars, drawVars, compVars>>

\* again = sanitize_filename(result)
SanitizeAgain ==
    /\ sanPc = "once"
    /\ again' = sanitize_filename(result)
    /\ sanPc' = "twice"
    /\ UNCHANGED <<name, result, geoVars, drawVars, compVars>>

SanNext == SanitizeCall \/ SanitizeAgain

SpecSanitize == SanInit /\ [][SanNext]_vars

(***************************************************************************)
(* App.create_pdf (lines 187-209) calling compose_final_pdf (lines 71-108). *)
(* Two invocations run, each over its own fields; they meet only in the     *)
(* file system.  A path is <<directory, file name>>; a file is the sequence *)
(* of chunks written to it, chunk k of invocation p being <<p, k>>.         *)
(***************************************************************************)
Procs == {1, 2}
MaxChunks == 2

\* The directories that exist.
Dirs == {"d1", "d2"}

\* The source field: empty, a path that does not exist, a PDF, a PDF whose
\* first page has a zero-width media box.
SrcChoices ==
    {[dir |-> "", kind |-> "empty"], [dir |-> "d1", kind |-> "missing"],
     [dir |-> "d1", kind |-> "pdf"], [dir |-> "d2", kind |-> "pdf"],
     [dir |-> "d1", kind |-> "zero_width"]}
TxtChoices == {"empty", "missing", "file"}
LabelChoices ==
    {<<>>, <<" ">>, <<"A", "/", "B">>, <<"A", ":", "B">>, <<" ", "C", " ">>}
\* The output directory field: empty, a directory, a directory that is gone.
OutDirChoices == {"", "d1", "gone"}

Hole == <<0, 0>>
NoPath == <<"", <<>>>>
PDF_SUFFIX == <<".", "p", "d", "f">>

\* A faulty variant: the label is not checked.
ValidationError_nolabel(r) ==
    IF r.src.kind \in {"empty", "missing"} THEN "invalid_source"
    ELSE IF r.txt \in {"empty", "missing"} THEN "invalid_text"
    ELSE "none"

\* Lines 193-201: the first check that fails, or "none".
ValidationError(r) ==
    IF r.src.kind \in {"empty", "missing"} THEN "invalid_source"
    ELSE IF r.txt \in {"empty", "missing"} THEN "invalid_text"
    ELSE IF Strip(r.label) = <<>> THEN "label_required"
    ELSE "none"

\* A faulty variant: out_dir is ignored.
TargetDir_parent(r) == r.src.dir

\* Line 102 (with line 203): out_dir if out_dir else barcode_pdf_path.parent
TargetDir(r) == IF r.out_dir # "" THEN r.out_dir ELSE r.src.dir

\* Lines 101-103, on the label create_pdf passes (line 191: stripped).
OutPath(r) == <<TargetDir(r), sanitize_filename(Strip(r.label)) \o PDF_SUFFIX>>

\* A write of one chunk at position at (0-based) of a file.
RECURSIVE PadTo(_, _)
PadTo(content, n) ==
    IF Len(content) >= n THEN content ELSE PadTo(Append(content, Hole), n)

WriteAt(content, at, chunk) ==
    IF at < Len(content)
    THEN [content EXCEPT ![at + 1] = chunk]
    ELSE Append(PadTo(content, at), chunk)

\* What invocation p's writer emits in full.
Output(p) == [k \in 1..nchunks[p] |-> <<p, k>>]

CompInit ==
    /\ req \in [Procs -> [src : SrcChoices, txt : TxtChoices,
                          label : LabelChoices, out_dir : OutDirChoices]]
    /\ pc = [p \in Procs |-> "validate"]
    /\ msg = [p \in Procs |-> "none"]
    /\ log = [p \in Procs |-> <<>>]
    /\ out_path = [p \in Procs |-> NoPath]
    /\ nchunks = [p \in Procs |-> 0]
    /\ pos = [p \in Procs |-> 0]
    /\ ret = [p \in Procs |-> NoPath]
    /\ fs = <<>>
    /\ touched = [p \in Procs |-> {}]
    /\ lastWriter = 0
    /\ SanIdle
    /\ GeoIdle
    /\ DrawIdle

Same == UNCHANGED <<sanVars, geoVars, drawVars>>

\* Lines 207-209: the exception reaches create_pdf's handler.
Raise(p, step) ==
    /\ pc' = [pc EXCEPT ![p] = "failed"]
    /\ msg' = [msg EXCEPT ![p] = "could_not_create"]
    /\ log' = [log EXCEPT ![p] = Append(@, step)]

Advance(p, step, to) ==
    /\ pc' = [pc EXCEPT ![p] = to]
    /\ log' = [log EXCEPT ![p] = Append(@, step)]
    /\ UNCHANGED msg

\* Lines 189-203: the checks; an error box and return, or on to the call.
Validate(p) ==
    /\ pc[p] = "validate"
    /\ IF ValidationError(req[p]) # "none"
       THEN /\ pc' = [pc EXCEPT ![p] = "rejected"]
            /\ msg' = [msg EXCEPT ![p] = ValidationError(req[p])]
       ELSE /\ pc' = [pc EXCEPT ![p] = "read_text"]
            /\ UNCHANGED msg
    /\ UNCHANGED <<req, log, out_path, nchunks, pos, ret, fs, touched, lastWriter>>
    /\ Same

\* Line 73: txt_path.read_text, which may raise (a directory, no permission).
ReadText(p) ==
    /\ pc[p] = "read_text"
    /\ \/ Advance(p, "read_text", "read_source")
       \/ Raise(p, "read_text")
    /\ UNCHANGED <<req, out_path, nchunks, pos, ret, fs, touched, lastWriter>>
    /\ Same

\* Lines 76-79: PdfReader and the first page's size; a file that is no PDF raises.
ReadSource(p) ==
    /\ pc[p] = "read_source"
    /\ \/ Advance(p, "read_source", "scale")
       \/ Raise(p, "read_source")
    /\ UNCHANGED <<req, out_path, nchunks, pos, ret, fs, touched, lastWriter>>
    /\ Same

\* Lines 82-84: BARCODE_TARGET_W / bc_w raises ZeroDivisionError for bc_w = 0.
ScaleStep(p) ==
    /\ pc[p] = "scale"
    /\ IF req[p].src.kind = "zero_width"
       THEN Raise(p, "scale")
       ELSE Advance(p, "scale", "render")
    /\ UNCHANGED <<req, out_path, nchunks, pos, ret, fs, touched, lastWriter>>
    /\ Same

\* Line 87: the background page.
Render(p) ==
    /\ pc[p] = "render"
    /\ \/ Advance(p, "render", "merge")
       \/ Raise(p, "render")
    /\ UNCHANGED <<req, out_path, nchunks, pos, ret, fs, touched, lastWriter>>
    /\ Same

\* Lines 90-98: the merge into the writer's page; the document the writer
\* will emit has some number of chunks.
Merge(p) ==
    /\ pc[p] = "merge"
    /\ \/ /\ Advance(p, "merge", "open")
          /\ \E n \in 1..MaxChunks : nchunks' = [nchunks EXCEPT ![p] = n]
       \/ /\ Raise(p, "merge")
          /\ UNCHANGED nchunks
    /\ UNCHANGED <<req, out_path, pos, ret, fs, touched, lastWriter>>
    /\ Same

\* Lines 101-105: the path, and open(out_path, "wb"), which creates the file
\* or empties it; it raises when the directory does not exist.
OpenOutput(p) ==
    /\ pc[p] = "open"
    /\ out_path' = [out_path EXCEPT ![p] = OutPath(req[p])]
    /\ IF TargetDir(req[p]) \in Dirs
       THEN /\ Advance(p, "open", "write")
            /\ fs' = (OutPath(req[p]) :> <<>>) @@ fs
            /\ touched' = [touched EXCEPT ![p] = @ \cup {OutPath(req[p])}]
       ELSE /\ Raise(p, "open")
            /\ UNCHANGED <<fs, touched>>
    /\ UNCHANGED <<req, nchunks, pos, ret, lastWriter>>
    /\ Same

\* Line 106: writer.write(f), one chunk at the handle's position; a write
\* may raise (a full disk), and the with statement then closes the file.
WriteChunk(p) ==
    /\ pc[p] = "write"
    /\ pos[p] < nchunks[p]
    /\ \/ /\ fs' = [fs EXCEPT ![out_path[p]] = WriteAt(@, pos[p], <<p, pos[p] + 1>>)]
          /\ pos' = [pos EXCEPT ![p] = @ + 1]
          /\ lastWriter' = p
          /\ UNCHANGED <<pc, msg, log>>
       \/ /\ Raise(p, "write")
          /\ UNCHANGED <<fs, pos, lastWriter>>
    /\ UNCHANGED <<req, out_path, nchunks, ret, touched>>
    /\ Same

\* Lines 105-108 and 205-206: the file is closed, the path returned and shown.
Finish(p) ==
    /\ pc[p] = "write"
    /\ pos[p] = nchunks[p]
    /\ ret' = [ret EXCEPT ![p] = out_path[p]]
    /\ pc' = [pc EXCEPT ![p] = "done"]
    /\ msg' = [msg EXCEPT ![p] = "created"]
    /\ log' = [log EXCEPT ![p] = Append(@, "close")]
    /\ UNCHANGED <<req, out_path, nchunks, pos, fs, touched, lastWriter>>
    /\ Same

Next ==
    \E p \in Procs :
        \/ Validate(p)
        \/ ReadText(p)
        \/ ReadSource(p)
        \/ ScaleStep(p)
        \/ Render(p)
        \/ Merge(p)
        \/ OpenOutput(p)
        \/ WriteChunk(p)
        \/ Finish(p)

Spec == CompInit /\ [][Next]_vars

\* C1: sanitize_filename is idempotent: sanitize_filename(sanitize_filename(x))
\* equals sanitize_filename(x) for every input x.
C1_Idempotent == sanPc = "twice" => again = result

\* C2: sanitize_filename(x) has length 1..120, holds no forbidden character,
\* has no leading or trailing whitespace, and is "output" when the cleaned
\* string is empty.
C2_Total ==
    sanPc # "start" =>
        /\ Len(result) >= 1
        /\ Len(result) <= MAX_NAME_LEN
        /\ \A i \in 1..Len(result) : result[i] \notin Forbidden
        /\ result[1] \notin Whitespace
        /\ result[Len(result)] \notin Whitespace
        /\ (Strip(SubRuns(SubRuns(Strip(name), Forbidden, "-"),
                          Whitespace, " ")) = <<>>
              => result = FALLBACK)

GeoInit ==
    /\ bc_w \in Dims
    /\ bc_h \in Dims
    /\ geo = NoGeo
    /\ geoPc = "read"
    /\ SanIdle
    /\ DrawIdle
    /\ CompIdle

GeoNext == ComputeScale \/ PlaceOnPage

SpecGeometry == GeoInit /\ [][GeoNext]_vars

(***************************************************************************)
(* Exact comparison of floats, to state a tolerance.                       *)
(***************************************************************************)
\* a in units of 2^e0, for e0 at most a's exponent.
Units(a, e0) == IF a[1] = 0 THEN 0 ELSE a[1] * Pow2(a[2] - e0)

\* The least exponent among floats (zero has none).
MinExp(S) ==
    LET E == {a[2] : a \in {b \in S : b[1] # 0}}
    IN  CHOOSE e \in E : \A f \in E : e <= f

\* |a - b| <= k units in the last place of ref
Within(a, b, k, ref) ==
    LET e0 == MinExp({a, b, ref})
    IN  Abs(Units(a, e0) - Units(b, e0)) <= k * Pow2(ref[2] - e0)

\* |origin + size/2 - page/2| <= k units in the last place of the larger of
\* page and size, the left side in exact arithmetic.
Centred(origin, size, page, k) ==
    LET e0 == MinExp({origin, size, page})
        ref == Max(page[2], size[2])
    IN  Abs(2 * Units(origin, e0) + Units(size, e0) - Units(page, e0))
            <= 2 * k * Pow2(ref - e0)

\* C3 as stated: the placed width is BARCODE_TARGET_W, the placed height is
\* sourceHeight * (BARCODE_TARGET_W / sourceWidth), origin + size/2 equals
\* page/2 on both axes, and the label anchor is (PAGE_W/2, originY - GAP).
C3_ExactGeometry ==
    geoPc = "placed" =>
        /\ geo.barcode_w_pt = BARCODE_TARGET_W
        /\ geo.barcode_h_pt = FMul(bc_h, FDiv(BARCODE_TARGET_W, bc_w))
        /\ FAdd(geo.x, FDiv(geo.barcode_w_pt, FTwo)) = FDiv(PAGE_W, FTwo)
        /\ FAdd(geo.y, FDiv(geo.barcode_h_pt, FTwo)) = FDiv(PAGE_H, FTwo)
        /\ geo.label_x_center = FDiv(PAGE_W, FTwo)
        /\ geo.label_y = FSub(geo.y, GAP_BARCODE_LABEL)

\* C3 amended: the placed width is within one unit in the last place of
\* BARCODE_TARGET_W, the placed height is the float product
\* sourceHeight * (BARCODE_TARGET_W / sourceWidth), origin + size/2 is within
\* one unit in the last place (of the larger of the page and the placed size)
\* of page/2 on both axes, and the label anchor is (PAGE_W/2, originY - GAP).
C3_GeometryWithinTolerance ==
    geoPc = "placed" =>
        /\ Within(geo.barcode_w_pt, BARCODE_TARGET_W, 1, BARCODE_TARGET_W)
        /\ geo.barcode_h_pt = FMul(bc_h, FDiv(BARCODE_TARGET_W, bc_w))
        /\ Centred(geo.x, geo.barcode_w_pt, PAGE_W, 1)
        /\ Centred(geo.y, geo.barcode_h_pt, PAGE_H, 1)
        /\ geo.label_x_center = FDiv(PAGE_W, FTwo)
        /\ geo.label_y = FSub(geo.y, GAP_BARCODE_LABEL)

\* A placed geometry whose width was rounded away from BARCODE_TARGET_W.
C3_Witness ==
    /\ geoPc = "placed"
    /\ bc_w[1] > 0 /\ bc_h[1] > 0
    /\ geo.barcode_w_pt # BARCODE_TARGET_W

\* Lines 51-54 leave at least one wrapped line.
DrawInit ==
    /\ wrapped_lines \in {[i \in 1..n |-> i] : n \in 1..MaxLines}
    /\ idx = 1
    /\ y_text = TextTop
    /\ drawn = <<>>
    /\ labels = <<>>
    /\ drawPc = "loop"
    /\ SanIdle
    /\ GeoIdle
    /\ CompIdle

DrawNext == DrawLine \/ BreakLoop \/ EndLoop \/ DrawLabel

SpecDraw == DrawInit /\ [][DrawNext]_vars

\* floor(a / b) for floats a >= 0, b > 0
FloorQuot(a, b) ==
    IF a[2] >= b[2]
    THEN (a[1] * Pow2(a[2] - b[2])) \div b[1]
    ELSE a[1] \div (b[1] * Pow2(b[2] - a[2]))

\* floor((PAGE_H - 2*MARGIN) / lineHeight)
LinesThatFit ==
    FloorQuot(FSub(PAGE_H, FMul(FTwo, FromInt(MARGIN))), line_height)

DrawnLines == [i \in 1..Len(drawn) |-> drawn[i].line]

\* C4: every drawn line has its baseline at y >= MARGIN, and once a line does
\* not fit no later line is drawn: the drawn lines are those before it.
C4_NoLineBelowMargin ==
    /\ \A i \in 1..Len(drawn) : FGe(drawn[i].y, FromInt(MARGIN))
    /\ (drawPc \in {"label", "done"} /\ idx <= Len(wrapped_lines)
          => /\ NoRoom(y_text)
             /\ DrawnLines = SubSeq(wrapped_lines, 1, idx - 1))

\* Lines were dropped: the page is full and the list is not exhausted.
C4_Witness ==
    /\ drawPc = "done"
    /\ idx <= Len(wrapped_lines)
    /\ Len(drawn) > 0

\* C9 as stated: the i-th drawn line is at PAGE_H - MARGIN - (i-1) * lineHeight
\* (the first at PAGE_H - MARGIN), each one line height below the previous.
C9_FirstLineAtTop ==
    \A i \in 1..Len(drawn) :
        /\ drawn[i].y = FSub(TextTop, FMul(FromInt(i - 1), line_height))
        /\ (i > 1 => drawn[i].y = FSub(drawn[i - 1].y, line_height))

\* C9 amended: the i-th drawn line is at PAGE_H - MARGIN - i * lineHeight (the
\* first one line height below PAGE_H - MARGIN), each one line height below
\* the previous.
C9_LineBaselines ==
    \A i \in 1..Len(drawn) :
        /\ drawn[i].y = FSub(TextTop, FMul(FromInt(i), line_height))
        /\ (i > 1 => drawn[i].y = FSub(drawn[i - 1].y, line_height))

\* The page is finished with several lines drawn.
C9_Witness == drawPc = "done" /\ Len(drawn) >= 3

\* C10: the drawn lines are the first k lines in their order,
\* k = min(n, floor((PAGE_H - 2*MARGIN) / lineHeight)); none is skipped,
\* reordered or drawn twice; the label is drawn once, after the loop, whether
\* or not lines were dropped.
C10_DrawnPrefix ==
    /\ DrawnLines = SubSeq(wrapped_lines, 1, Len(drawn))
    /\ (drawPc = "loop" => Len(drawn) = idx - 1 /\ labels = <<>>)
    /\ (drawPc = "label" => labels = <<>>)
    /\ (drawPc = "done" =>
          /\ Len(drawn) = Min(Len(wrapped_lines), LinesThatFit)
          /\ Len(labels) = 1)

\* A finished page that dropped lines.
C10_Witness ==
    /\ drawPc = "done"
    /\ Len(labels) = 1
    /\ Len(drawn) = LinesThatFit
    /\ Len(wrapped_lines) > LinesThatFit

\* C5: when a compose operation fails at any step, no output file, complete
\* or partial, exists afterwards as a result of it.
C5_NoFileOnFailure ==
    \A p \in Procs :
        pc[p] = "failed" => ~\E f \in touched[p] : f \in DOMAIN fs

\* The fields fail create_pdf's validation: the source or the text path is
\* empty or missing, or the label is empty or only whitespace.
InvalidRequest(r) ==
    \/ r.src.kind \in {"empty", "missing"}
    \/ r.txt \in {"empty", "missing"}
    \/ \A i \in 1..Len(r.label) : r.label[i] \in Whitespace

ValidationMessages == {"invalid_source", "invalid_text", "label_required"}

\* C6: a request with an empty or missing source, an empty or missing text
\* file or a blank label gets a validation error before any read, geometry or
\* rendering step runs and produces no file; a step runs only for a request
\* whose three inputs are valid.
C6_ValidatedFirst ==
    \A p \in Procs :
        /\ (InvalidRequest(req[p]) /\ pc[p] # "validate"
              => /\ pc[p] = "rejected"
                 /\ msg[p] \in ValidationMessages
                 /\ log[p] = <<>>
                 /\ touched[p] = {})
        /\ (log[p] # <<>> => ~InvalidRequest(req[p]))
        /\ (pc[p] = "rejected" => InvalidRequest(req[p]))

\* A blank label is rejected while the other invocation has rendered.
C6_Witness ==
    \E p, q \in Procs :
        /\ pc[p] = "rejected"
        /\ msg[p] = "label_required"
        /\ req[p].label = <<" ">>
        /\ pc[q] = "done"

\* The directory C7 names: the given out_dir, else the source's parent.
ExpectedDir(r) == IF r.out_dir = "" THEN r.src.dir ELSE r.out_dir

\* C7: on success exactly one file is written, at
\* {out_dir or the source's parent}/{sanitize_filename(label)}.pdf, and that
\* path is returned.
C7_OutputPath ==
    \A p \in Procs :
        pc[p] = "done" =>
            LET path == <<ExpectedDir(req[p]),
                          sanitize_filename(Strip(req[p].label)) \o PDF_SUFFIX>>
            IN  /\ touched[p] = {path}
                /\ path \in DOMAIN fs
                /\ ret[p] = path

\* One invocation wrote into a given out_dir that is not its source's
\* directory, the other beside its source.
C7_Witness ==
    \E p, q \in Procs :
        /\ pc[p] = "done" /\ req[p].out_dir = "d1" /\ req[p].src.dir = "d2"
        /\ ret[p] = <<"d1", <<"A", "-", "B", ".", "p", "d", "f">>>>
        /\ pc[q] = "done" /\ req[q].out_dir = "" /\ req[q].src.dir = "d2"
        /\ ret[q][1] = "d2"

\* C8: when two invocations resolve to the same output path, both succeed and
\* the file afterwards is the complete output of the one that wrote later,
\* under every interleaving.
C8_LaterWriteWins ==
    (/\ \A p \in Procs : pc[p] \in {"done", "failed", "rejected"}
     /\ pc[1] = "done" /\ pc[2] = "done"
     /\ out_path[1] = out_path[2])
        => /\ msg[1] = "created" /\ msg[2] = "created"
           /\ fs[out_path[1]] = Output(lastWriter)

====
